---- MODULE Spec2Model ----
(***************************************************************************)
(* A model of src/src/lib/license.ts: the license verification service.    *)
(*                                                                         *)
(* The module-level cache (licenseCache, lastVerifyTime), the persisted    *)
(* configuration file, the wall clock and the calls in progress are the    *)
(* state.  Every exported function is an async function of a single        *)
(* threaded runtime: it runs without interruption up to its await of       *)
(* fetch, and again from the arrival of the response to its return.  A     *)
(* call is therefore at most two steps, and the steps of different calls   *)
(* interleave.  The authority is an external collaborator: it may answer   *)
(* any request with any response, or not be reachable at all.              *)
(*                                                                         *)
(* The pass-through fields maxUsers, expiresAt and customerName of         *)
(* LicenseInfo are copied from the response and read nowhere; they are     *)
(* left out.  Message texts are given in English.                          *)
(***************************************************************************)
EXTENDS Integers, FiniteSets, Sequences, Bags, TLC

VARIABLES
    licenseCache,    \* license.ts:35  LicenseInfo | null
    lastVerifyTime,  \* license.ts:36  0 when never verified
    clock,           \* what Date.now() returns
    configFile,      \* the contents of CONFIG_FILE
    processEnv,      \* process.env.LICENSE_SERVER, "" when unset
    calls,           \* the calls awaiting a response: a bag of their live locals
    activated,       \* the pair of the last successful activateLicense
    cleared,         \* clearLicenseCache ran and no call has run since
    lastRequestTime, \* when the current run of non-forced calls last sent a
                     \* verification request, 0 when it has sent none
    step             \* what the step just taken did, until control is yielded

vars ==
    <<licenseCache, lastVerifyTime, clock, configFile, processEnv, calls,
      activated, cleared, lastRequestTime, step>>

----------------------------------------------------------------------------
(* Bounds *)

MaxCalls == 2
MaxTicks == 2
MaxWaits == 1

----------------------------------------------------------------------------
(* Values *)

NULL == [null |-> TRUE]
NotRead == [unread |-> TRUE]
NoType == "undefined"

VERIFY_INTERVAL == 1000 * 60 * 60

\* The clock advances in half intervals from the time the process starts,
\* so that a call can start less than, exactly and more than one interval
\* after a verification.
TickStep == VERIFY_INTERVAL \div 2
StartTime == 2 * VERIFY_INTERVAL
Ticks(t) == (t - StartTime) \div TickStep

\* Lines 105 and 162: AbortSignal.timeout(10000) ends an exchange ten seconds
\* after it starts.  While a call is suspended the clock advances by half of
\* that, and never past the time its exchange is aborted.
FetchTimeout == 10000
WaitStep == FetchTimeout \div 2
Waits(t) == ((t - StartTime) % TickStep) \div WaitStep

LicenseTypes == {"standard", "pro", "enterprise", "lifetime"}
proFeatures == {"moviepilot", "telegram", "advanced-stats", "multi-emby"}
Features == proFeatures \cup {"tickets"}
\* The features asked for while calls interleave: one that needs Pro, one
\* that does not.
FeatureInputs == {"moviepilot", "tickets"}

Domain == "x.com"
Keys == {"K1"}
Pairs == {[domain |-> Domain, licenseKey |-> k] : k \in Keys}

\* CONFIG_FILE: absent, not JSON, or a JSON document whose license.domain
\* and license.licenseKey may be missing ("").
MissingFile ==
    [status |-> "missing", licenseServer |-> "", domain |-> "",
     licenseKey |-> ""]
CorruptFile ==
    [status |-> "corrupt", licenseServer |-> "", domain |-> "",
     licenseKey |-> ""]
JsonFile(d, k) ==
    [status |-> "json", licenseServer |-> "", domain |-> d, licenseKey |-> k]
ConfigFiles ==
    {MissingFile, CorruptFile, JsonFile("", "K1"), JsonFile(Domain, "")}
    \cup {JsonFile(Domain, k) : k \in Keys}
\* The values of process.env.LICENSE_SERVER and of config.licenseServer, and
\* the files that hold the latter: one of them cannot be parsed.
Envs == {"", "https://env.example"}
ConfigServer == "https://config.example"
ServerFiles ==
    ConfigFiles
    \cup {[file EXCEPT !.licenseServer = ConfigServer] :
            file \in {CorruptFile, JsonFile(Domain, "K1"), JsonFile(Domain, "")}}

\* What the file becomes while calls interleave: the settings page saves a
\* license, or the file is removed.
ConfigWrites == {MissingFile} \cup {JsonFile(Domain, k) : k \in Keys}

Throw(msg) == [throw |-> msg]
IsThrow(v) == DOMAIN v = {"throw"}

\* What the exchange with POST /api/verify can end in: fetch rejects
\* (transport error, timeout), a non-success status, a body that is not
\* JSON, or {valid, message, license?: {type}}.
VerifyFailures ==
    { [kind |-> k, valid |-> FALSE, message |-> "", type |-> NoType] :
        k \in {"network", "timeout", "status", "badjson"} }
VerifyAnswers ==
    { [kind |-> "json", valid |-> v,
       message |-> IF v THEN "license valid" ELSE "license invalid",
       type |-> t] : v \in BOOLEAN, t \in LicenseTypes \cup {NoType} }
VerifyResponses == VerifyFailures \cup VerifyAnswers
\* The responses given while calls interleave: every failure, a denial, and
\* a grant of a type that needs Pro features denied and of one that does not.
VerifyInputs ==
    VerifyFailures \cup
    { r \in VerifyAnswers : IF r.valid THEN r.type \in {"standard", "pro"}
                                        ELSE r.type = NoType }

\* What the exchange with POST /api/activate can end in.  The status of the
\* response is not looked at: a body that is JSON is used whatever it is.
ActivateFailures ==
    { [kind |-> k, success |-> FALSE, message |-> "", type |-> NoType] :
        k \in {"network", "timeout", "badjson"} }
ActivateAnswers ==
    { [kind |-> "json", success |-> s,
       message |-> IF s THEN "activated" ELSE "activation refused",
       type |-> IF s THEN t ELSE NoType] :
        s \in BOOLEAN, t \in {"pro"} }
ActivateResponses == ActivateFailures \cup ActivateAnswers

\* A suspended call holds what it still needs: the time it read, the
\* configuration it read, the request it sent.
NewCall ==
    [op |-> "none", feature |-> "", now |-> 0, config |-> NotRead,
     request |-> NULL]

\* The record of a step: which function ran, with which arguments, whether
\* it ran right after clearLicenseCache, the time it read, what it read of
\* the configuration, which response it received, what verifyLicense
\* returned to it and what it returned; server is the address its request
\* went to.
NoStep ==
    [kind |-> "none", op |-> "none", after |-> "other",
     forceRefresh |-> FALSE, feature |-> "", args |-> NULL, now |-> 0,
     licenseConfig |-> NotRead, server |-> "", resp |-> NULL,
     license |-> NULL, ret |-> NULL]

----------------------------------------------------------------------------
(* getLicenseConfig *)

\* JSON.parse(fs.readFileSync(CONFIG_FILE)): the document, or a SyntaxError.
JSONparse(file) ==
    IF file.status = "corrupt" THEN Throw("SyntaxError") ELSE file

\* getLicenseConfig without its try/catch: the SyntaxError escapes.
getLicenseConfig_NoCatch(file) ==
    IF file.status = "missing" THEN NULL
    ELSE LET config == JSONparse(file) IN
         IF IsThrow(config) THEN config
         ELSE IF config.domain # "" /\ config.licenseKey # ""
              THEN [domain |-> config.domain, licenseKey |-> config.licenseKey]
              ELSE NULL

\* getLicenseConfig testing the domain alone.
getLicenseConfig_DomainOnly(file) ==
    IF file.status = "missing" THEN NULL
    ELSE LET config == JSONparse(file) IN
         IF IsThrow(config) THEN NULL
         ELSE IF config.domain # ""
              THEN [domain |-> config.domain, licenseKey |-> config.licenseKey]
              ELSE NULL

getLicenseConfig(file) ==
    IF file.status = "missing" THEN NULL
    ELSE LET config == JSONparse(file) IN
         IF IsThrow(config) THEN NULL
         ELSE IF config.domain # "" /\ config.licenseKey # ""
              THEN [domain |-> config.domain, licenseKey |-> config.licenseKey]
              ELSE NULL

----------------------------------------------------------------------------
(* getLicenseServer *)

BUILT_IN_LICENSE_SERVER == "https://license.flixpilot.ovh"

\* getLicenseServer looking at config.json before the environment.
getLicenseServer_ConfigFirst(env, file) ==
    IF file.status = "json" /\ file.licenseServer # "" THEN file.licenseServer
    ELSE IF env # "" THEN env
    ELSE BUILT_IN_LICENSE_SERVER

getLicenseServer(env, file) ==
    IF env # "" THEN env
    ELSE IF file.status = "missing" THEN BUILT_IN_LICENSE_SERVER
    ELSE LET config == JSONparse(file) IN
         IF IsThrow(config) THEN BUILT_IN_LICENSE_SERVER
         ELSE IF config.licenseServer # "" THEN config.licenseServer
         ELSE BUILT_IN_LICENSE_SERVER

----------------------------------------------------------------------------
(* verifyLicense *)

NotConfiguredResult ==
    [valid |-> FALSE, message |-> "license not configured", type |-> NoType]

\* The interval taken for seconds while the clock counts milliseconds.
ThrottleApplies_Seconds(forceRefresh, now, cache, last) ==
    ~forceRefresh /\ cache # NULL /\ (now - last) < VERIFY_INTERVAL \div 1000

\* The comparison turned round: the entry is served once it is old.
ThrottleApplies_Reversed(forceRefresh, now, cache, last) ==
    ~forceRefresh /\ cache # NULL /\ (now - last) > VERIFY_INTERVAL

\* An entry exactly one interval old still counted as fresh.
ThrottleApplies_Inclusive(forceRefresh, now, cache, last) ==
    ~forceRefresh /\ cache # NULL /\ (now - last) <= VERIFY_INTERVAL

\* Line 76, the interval check.
ThrottleApplies(forceRefresh, now, cache, last) ==
    ~forceRefresh /\ cache # NULL /\ (now - last) < VERIFY_INTERVAL

\* verifyLicense without line 89: the unconfigured result is not stamped.
VerifyBegin_NoStamp(forceRefresh, now, cache, last, file, env) ==
    IF ThrottleApplies(forceRefresh, now, cache, last)
    THEN [step |-> "return", result |-> cache, cache |-> cache, last |-> last,
          licenseConfig |-> NotRead, licenseServer |-> ""]
    ELSE LET licenseConfig == getLicenseConfig(file) IN
         IF IsThrow(licenseConfig)
         THEN [step |-> "throw", result |-> licenseConfig, cache |-> cache,
               last |-> last, licenseConfig |-> NotRead, licenseServer |-> ""]
         ELSE IF licenseConfig = NULL
         THEN [step |-> "return", result |-> NotConfiguredResult,
               cache |-> NotConfiguredResult, last |-> last,
               licenseConfig |-> NULL, licenseServer |-> ""]
         ELSE [step |-> "fetch", result |-> NULL, cache |-> cache,
               last |-> last, licenseConfig |-> licenseConfig,
               licenseServer |-> getLicenseServer(env, file)]

\* Lines 75-106, up to the await of fetch.  step is "return" when the call
\* returns at once, "fetch" when it has sent its request, "throw" when an
\* exception escapes.
VerifyBegin(forceRefresh, now, cache, last, file, env) ==
    IF ThrottleApplies(forceRefresh, now, cache, last)
    THEN [step |-> "return", result |-> cache, cache |-> cache, last |-> last,
          licenseConfig |-> NotRead, licenseServer |-> ""]
    ELSE LET licenseConfig == getLicenseConfig(file) IN
         IF IsThrow(licenseConfig)
         THEN [step |-> "throw", result |-> licenseConfig, cache |-> cache,
               last |-> last, licenseConfig |-> NotRead, licenseServer |-> ""]
         ELSE IF licenseConfig = NULL
         THEN [step |-> "return", result |-> NotConfiguredResult,
               cache |-> NotConfiguredResult, last |-> now,
               licenseConfig |-> NULL, licenseServer |-> ""]
         ELSE [step |-> "fetch", result |-> NULL, cache |-> cache,
               last |-> last, licenseConfig |-> licenseConfig,
               licenseServer |-> getLicenseServer(env, file)]

\* Lines 96-121, the try block after the request was sent: the LicenseInfo
\* built from the response, or the error thrown.
VerifyTry(resp) ==
    CASE resp.kind = "network" -> Throw("fetch failed")
      [] resp.kind = "timeout" -> Throw("The operation was aborted due to timeout")
      [] resp.kind = "status"  -> Throw("license server responded abnormally")
      [] resp.kind = "badjson" -> Throw("Unexpected token in JSON")
      [] OTHER -> [valid |-> resp.valid, message |-> resp.message,
                   type |-> resp.type]

FailureMessage(error) ==
    CASE error.throw = "fetch failed" ->
            "license verification failed: fetch failed"
      [] error.throw = "The operation was aborted due to timeout" ->
            "license verification failed: The operation was aborted due to timeout"
      [] error.throw = "license server responded abnormally" ->
            "license verification failed: license server responded abnormally"
      [] OTHER ->
            "license verification failed: Unexpected token in JSON"

\* The catch block stamping the stale entry it returns.
VerifyCatch_Restamp(error, now, cache, last) ==
    IF cache # NULL
    THEN [step |-> "return", result |-> cache, cache |-> cache, last |-> now]
    ELSE LET result == [valid |-> FALSE, message |-> FailureMessage(error),
                        type |-> NoType] IN
         [step |-> "return", result |-> result, cache |-> result, last |-> now]

\* The catch block returning the synthesized failure without caching it.
VerifyCatch_NoStore(error, now, cache, last) ==
    IF cache # NULL
    THEN [step |-> "return", result |-> cache, cache |-> cache, last |-> last]
    ELSE LET result == [valid |-> FALSE, message |-> FailureMessage(error),
                        type |-> NoType] IN
         [step |-> "return", result |-> result, cache |-> cache, last |-> last]

\* The catch block without lines 128-130: every failure is a denial.
VerifyCatch_NoFallback(error, now, cache, last) ==
    LET result == [valid |-> FALSE, message |-> FailureMessage(error),
                   type |-> NoType] IN
    [step |-> "return", result |-> result, cache |-> result, last |-> now]

\* Lines 126-139, the catch block.
VerifyCatch(error, now, cache, last) ==
    IF cache # NULL
    THEN [step |-> "return", result |-> cache, cache |-> cache, last |-> last]
    ELSE LET result == [valid |-> FALSE, message |-> FailureMessage(error),
                        type |-> NoType] IN
         [step |-> "return", result |-> result, cache |-> result, last |-> now]

\* verifyLicense sending its request again when the exchange fails.
VerifyEnd_Retry(resp, now, cache, last) ==
    LET result == VerifyTry(resp) IN
    IF IsThrow(result)
    THEN [step |-> "fetch", result |-> NULL, cache |-> cache, last |-> last]
    ELSE [step |-> "return", result |-> result, cache |-> result, last |-> now]

\* Lines 108-139, from the arrival of the response to the return.
VerifyEnd(resp, now, cache, last) ==
    LET result == VerifyTry(resp) IN
    IF IsThrow(result)
    THEN VerifyCatch(result, now, cache, last)
    ELSE [step |-> "return", result |-> result, cache |-> result, last |-> now]

----------------------------------------------------------------------------
(* checkFeatureAccess, getLicenseStatus, activateLicense *)

NoReason == "undefined"

\* checkFeatureAccess letting only the lifetime license past the Pro check.
checkFeatureAccess_NoEnterprise(license, feature) ==
    IF ~license.valid
    THEN [allowed |-> FALSE, reason |-> license.message]
    ELSE IF license.type = "lifetime"
    THEN [allowed |-> TRUE, reason |-> NoReason]
    ELSE IF feature \in proFeatures /\ license.type # "pro"
    THEN [allowed |-> FALSE, reason |-> "this feature requires a Pro license"]
    ELSE [allowed |-> TRUE, reason |-> NoReason]

\* Lines 196-211, from the license that verifyLicense() returned.
checkFeatureAccess(license, feature) ==
    IF ~license.valid
    THEN [allowed |-> FALSE, reason |-> license.message]
    ELSE IF license.type = "lifetime" \/ license.type = "enterprise"
    THEN [allowed |-> TRUE, reason |-> NoReason]
    ELSE IF feature \in proFeatures /\ license.type # "pro"
    THEN [allowed |-> FALSE, reason |-> "this feature requires a Pro license"]
    ELSE [allowed |-> TRUE, reason |-> NoReason]

\* Lines 223-230.
StatusUnconfigured ==
    [configured |-> FALSE, valid |-> FALSE, info |-> NULL, config |-> NULL]

\* getLicenseStatus handing the whole LicenseConfig to the page.
StatusConfigured_WholeConfig(config, license) ==
    [configured |-> TRUE, valid |-> license.valid, info |-> license,
     config |-> config]

\* Lines 234-239.
StatusConfigured(config, license) ==
    [configured |-> TRUE, valid |-> license.valid, info |-> license,
     config |-> [domain |-> config.domain]]

\* What the call returns once verifyLicense() has returned license.
Returned(call, license) ==
    CASE call.op = "checkFeatureAccess" ->
            checkFeatureAccess(license, call.feature)
      [] call.op = "getLicenseStatus" ->
            StatusConfigured(call.config, license)
      [] OTHER -> license

\* activateLicense without lines 167-171: the cache survives the activation.
ActivateEnd_KeepsCache(resp, cache, last) ==
    IF resp.kind # "json"
    THEN [result |-> [success |-> FALSE,
                      message |-> "activation failed",
                      license |-> NULL],
          cache |-> cache, last |-> last]
    ELSE [result |-> [success |-> resp.success,
                      message |-> resp.message,
                      license |-> IF resp.success
                                  THEN [valid |-> TRUE,
                                        message |-> "license valid",
                                        type |-> resp.type]
                                  ELSE NULL],
          cache |-> cache, last |-> last]

\* activateLicense caching the license it reports instead of emptying the
\* cache.
ActivateEnd_CachesLicense(resp, cache, last) ==
    IF resp.kind # "json"
    THEN [result |-> [success |-> FALSE,
                      message |-> "activation failed",
                      license |-> NULL],
          cache |-> cache, last |-> last]
    ELSE LET license == [valid |-> TRUE, message |-> "license valid",
                         type |-> resp.type] IN
         [result |-> [success |-> resp.success,
                      message |-> resp.message,
                      license |-> IF resp.success THEN license ELSE NULL],
          cache |-> IF resp.success THEN license ELSE cache,
          last |-> last]

\* activateLicense emptying the cache whatever the authority answers.
ActivateEnd_AlwaysResets(resp, cache, last) ==
    IF resp.kind # "json"
    THEN [result |-> [success |-> FALSE,
                      message |-> "activation failed",
                      license |-> NULL],
          cache |-> cache, last |-> last]
    ELSE [result |-> [success |-> resp.success,
                      message |-> resp.message,
                      license |-> IF resp.success
                                  THEN [valid |-> TRUE,
                                        message |-> "license valid",
                                        type |-> resp.type]
                                  ELSE NULL],
          cache |-> NULL, last |-> 0]

\* Lines 165-183 and 184-189: the outcome of activateLicense from the
\* response, and whether it resets the cache.
ActivateEnd(resp, cache, last) ==
    IF resp.kind # "json"
    THEN [result |-> [success |-> FALSE,
                      message |-> "activation failed",
                      license |-> NULL],
          cache |-> cache, last |-> last]
    ELSE [result |-> [success |-> resp.success,
                      message |-> resp.message,
                      license |-> IF resp.success
                                  THEN [valid |-> TRUE,
                                        message |-> "license valid",
                                        type |-> resp.type]
                                  ELSE NULL],
          cache |-> IF resp.success THEN NULL ELSE cache,
          last |-> IF resp.success THEN 0 ELSE last]

----------------------------------------------------------------------------
(* The state machine *)

Init ==
    /\ licenseCache = NULL
    /\ lastVerifyTime = 0
    /\ clock = StartTime
    /\ configFile \in ConfigFiles
    /\ processEnv = ""
    /\ calls = EmptyBag
    /\ activated = NULL
    /\ cleared = FALSE
    /\ lastRequestTime = 0
    /\ step = NoStep

\* The runtime is between two tasks: no function of the module is running
\* and the result of the last one has been handed over.
Ready == step = NoStep

\* At most MaxCalls calls are suspended at a time.
CanCall == Ready /\ BagCardinality(calls) < MaxCalls

Suspend(call) == calls (+) SetToBag({call})
Resume(call) == calls (-) SetToBag({call})

\* The record of a step b of verifyLicense run by call.
Record(call, info, b) ==
    [info EXCEPT !.kind = b.step, !.op = call.op, !.feature = call.feature,
                 !.now = call.now,
                 !.license = IF b.step = "return" THEN b.result ELSE NULL,
                 !.ret = IF b.step = "return" THEN Returned(call, b.result)
                         ELSE NULL]

AfterOf(wasCleared) == IF wasCleared THEN "clear" ELSE "other"

\* The call enters verifyLicense(forceRefresh) and runs to its first await.
EnterVerify(call, forceRefresh) ==
    LET b == VerifyBegin(forceRefresh, clock, licenseCache,
                         lastVerifyTime, configFile, processEnv)
        started == [call EXCEPT !.now = clock, !.request = b.licenseConfig]
    IN  /\ licenseCache' = b.cache
        /\ lastVerifyTime' = b.last
        /\ calls' = IF b.step = "fetch" THEN Suspend(started) ELSE calls
        /\ lastRequestTime' = IF forceRefresh THEN 0
                              ELSE IF b.step = "fetch" THEN clock
                              ELSE lastRequestTime
        /\ step' = Record(started,
                          [NoStep EXCEPT !.forceRefresh = forceRefresh,
                                         !.after = AfterOf(cleared),
                                         !.licenseConfig = b.licenseConfig,
                                         !.server = b.licenseServer], b)

CallVerifyLicense(forceRefresh) ==
    /\ CanCall
    /\ EnterVerify([NewCall EXCEPT !.op = "verifyLicense"], forceRefresh)
    /\ cleared' = FALSE
    /\ UNCHANGED <<clock, configFile, processEnv, activated>>

CallCheckFeatureAccess(feature) ==
    /\ CanCall
    /\ EnterVerify([NewCall EXCEPT !.op = "checkFeatureAccess",
                                   !.feature = feature], FALSE)
    /\ cleared' = FALSE
    /\ UNCHANGED <<clock, configFile, processEnv, activated>>

CallGetLicenseStatus ==
    /\ CanCall
    /\ LET config == getLicenseConfig(configFile)
           call == [NewCall EXCEPT !.op = "getLicenseStatus",
                                   !.config = config]
       IN  IF IsThrow(config)
           THEN /\ step' = [NoStep EXCEPT !.kind = "throw", !.op = call.op]
                /\ UNCHANGED <<licenseCache, lastVerifyTime, calls,
                               lastRequestTime>>
           ELSE IF config = NULL
           THEN /\ step' = [NoStep EXCEPT !.kind = "return", !.op = call.op,
                                          !.ret = StatusUnconfigured]
                /\ UNCHANGED <<licenseCache, lastVerifyTime, calls,
                               lastRequestTime>>
           ELSE EnterVerify(call, FALSE)
    /\ cleared' = FALSE
    /\ UNCHANGED <<clock, configFile, processEnv, activated>>

\* The response to the request of a suspended call arrives and the call
\* runs to its return.
ResumeVerify(call, resp) ==
    /\ Ready
    /\ BagIn(call, calls)
    /\ call.op # "activateLicense"
    /\ LET e == VerifyEnd(resp, call.now, licenseCache, lastVerifyTime)
       IN  /\ licenseCache' = e.cache
           /\ lastVerifyTime' = e.last
           /\ step' = Record(call,
                             [NoStep EXCEPT !.licenseConfig = call.request,
                                            !.resp = resp], e)
    /\ calls' = Resume(call)
    /\ cleared' = FALSE
    /\ UNCHANGED <<clock, configFile, processEnv, activated, lastRequestTime>>

\* Lines 144-163: without an address the call returns at once, else the
\* request is sent.
CallActivateLicense(pair) ==
    /\ CanCall
    /\ LET licenseServer == getLicenseServer(processEnv, configFile)
           info == [NoStep EXCEPT !.op = "activateLicense", !.args = pair]
       IN  IF licenseServer = ""
           THEN /\ calls' = calls
                /\ step' = [info EXCEPT !.kind = "return", !.ret =
                        [success |-> FALSE,
                         message |-> "license server not configured",
                         license |-> NULL]]
           ELSE /\ calls' = Suspend([NewCall EXCEPT !.op = "activateLicense",
                                                    !.now = clock,
                                                    !.request = pair])
                /\ step' = [info EXCEPT !.kind = "fetch",
                                        !.server = licenseServer]
    /\ cleared' = FALSE
    /\ UNCHANGED <<licenseCache, lastVerifyTime, clock, configFile, processEnv,
                   activated, lastRequestTime>>

ResumeActivate(call, resp) ==
    /\ Ready
    /\ BagIn(call, calls)
    /\ call.op = "activateLicense"
    /\ LET e == ActivateEnd(resp, licenseCache, lastVerifyTime)
       IN  /\ licenseCache' = e.cache
           /\ lastVerifyTime' = e.last
           /\ activated' = IF e.result.success THEN call.request
                           ELSE activated
           /\ lastRequestTime' = IF e.result.success THEN 0
                                 ELSE lastRequestTime
           /\ step' = [NoStep EXCEPT !.kind = "return",
                                     !.op = "activateLicense",
                                     !.args = call.request,
                                     !.resp = resp, !.ret = e.result]
    /\ calls' = Resume(call)
    /\ cleared' = FALSE
    /\ UNCHANGED <<clock, configFile, processEnv>>

\* clearLicenseCache assigning to names that are not the module's cache.
clearLicenseCache_NoReset ==
    /\ Ready
    /\ cleared' = TRUE
    /\ lastRequestTime' = 0
    /\ UNCHANGED <<licenseCache, lastVerifyTime, clock, configFile, processEnv,
                   calls, activated, step>>

\* clearLicenseCache without line 245: the timestamp outlives the entry.
clearLicenseCache_EntryOnly ==
    /\ Ready
    /\ licenseCache' = NULL
    /\ cleared' = TRUE
    /\ lastRequestTime' = 0
    /\ UNCHANGED <<lastVerifyTime, clock, configFile, processEnv, calls,
                   activated, step>>

\* clearLicenseCache, lines 243-246.
clearLicenseCache ==
    /\ Ready
    /\ licenseCache' = NULL
    /\ lastVerifyTime' = 0
    /\ cleared' = TRUE
    /\ lastRequestTime' = 0
    /\ UNCHANGED <<clock, configFile, processEnv, calls, activated, step>>

\* The configuration file is written, by the settings page or by hand.
WriteConfig(file) ==
    /\ Ready
    /\ file # configFile
    /\ configFile' = file
    /\ UNCHANGED <<licenseCache, lastVerifyTime, clock, processEnv, calls,
                   activated, cleared, lastRequestTime, step>>

\* Time passes while no call is suspended.
Tick ==
    /\ Ready
    /\ calls = EmptyBag
    /\ Ticks(clock) < MaxTicks
    /\ clock' = clock + TickStep
    /\ UNCHANGED <<licenseCache, lastVerifyTime, configFile, processEnv, calls,
                   activated, cleared, lastRequestTime, step>>

\* Time passes while calls are suspended: none of them is kept waiting
\* beyond the timeout of its request.
Wait ==
    /\ Ready
    /\ calls # EmptyBag
    /\ Waits(clock) < MaxWaits
    /\ \A call \in BagToSet(calls) : clock + WaitStep - call.now <= FetchTimeout
    /\ clock' = clock + WaitStep
    /\ UNCHANGED <<licenseCache, lastVerifyTime, configFile, processEnv, calls,
                   activated, cleared, lastRequestTime, step>>

\* The call that ran has returned to its caller or is suspended at its
\* await: control goes back to the runtime, which takes its next task.
Yield ==
    /\ ~Ready
    /\ step' = NoStep
    /\ UNCHANGED <<licenseCache, lastVerifyTime, clock, configFile, processEnv,
                   calls, activated, cleared, lastRequestTime>>

Next ==
    \/ \E forceRefresh \in BOOLEAN : CallVerifyLicense(forceRefresh)
    \/ \E feature \in FeatureInputs : CallCheckFeatureAccess(feature)
    \/ CallGetLicenseStatus
    \/ \E pair \in Pairs : CallActivateLicense(pair)
    \/ \E call \in BagToSet(calls), resp \in VerifyInputs : ResumeVerify(call, resp)
    \/ \E call \in BagToSet(calls), resp \in ActivateResponses : ResumeActivate(call, resp)
    \/ \E file \in ConfigWrites : WriteConfig(file)
    \/ clearLicenseCache
    \/ Tick
    \/ Wait
    \/ Yield

Spec == Init /\ [][Next]_vars

\* One caller at a time asks for any feature and the authority gives any
\* response: every LicenseInfo that verifyLicense can return meets every
\* feature name.
NextGate ==
    \/ \E feature \in Features :
            calls = EmptyBag /\ CallCheckFeatureAccess(feature)
    \/ \E call \in BagToSet(calls), resp \in VerifyResponses :
            ResumeVerify(call, resp)
    \/ \E file \in ConfigFiles : WriteConfig(file)
    \/ Tick
    \/ Wait
    \/ Yield

SpecGate == Init /\ [][NextGate]_vars

\* The process starts with any LICENSE_SERVER in its environment and any
\* licenseServer in its configuration, and one caller at a time verifies and
\* activates while the file is rewritten.
InitServer ==
    /\ licenseCache = NULL
    /\ lastVerifyTime = 0
    /\ clock = StartTime
    /\ configFile \in ServerFiles
    /\ processEnv \in Envs
    /\ calls = EmptyBag
    /\ activated = NULL
    /\ cleared = FALSE
    /\ lastRequestTime = 0
    /\ step = NoStep

NextServer ==
    \/ \E forceRefresh \in BOOLEAN :
            calls = EmptyBag /\ CallVerifyLicense(forceRefresh)
    \/ \E pair \in Pairs : calls = EmptyBag /\ CallActivateLicense(pair)
    \/ \E call \in BagToSet(calls), resp \in VerifyInputs :
            ResumeVerify(call, resp)
    \/ \E call \in BagToSet(calls), resp \in ActivateResponses :
            ResumeActivate(call, resp)
    \/ \E file \in ServerFiles : WriteConfig(file)
    \/ Yield

SpecServer == InitServer /\ [][NextServer]_vars

\* An outage: the license stays configured, and every request either fails
\* or is answered with the grant of the same Pro license.  Callers interleave,
\* time passes and the cache is cleared at any moment.  The runtime resumes
\* every task that is ready, and every request ends, in a response or in the
\* abort of its timeout: no call stays suspended for ever.
OutageResponses ==
    VerifyFailures \cup {r \in VerifyAnswers : r.valid /\ r.type = "pro"}

InitOutage ==
    /\ licenseCache = NULL
    /\ lastVerifyTime = 0
    /\ clock = StartTime
    /\ configFile = JsonFile(Domain, "K1")
    /\ processEnv = ""
    /\ calls = EmptyBag
    /\ activated = NULL
    /\ cleared = FALSE
    /\ lastRequestTime = 0
    /\ step = NoStep

ResumeOutage ==
    \E call \in BagToSet(calls), resp \in OutageResponses :
        ResumeVerify(call, resp)

NextOutage ==
    \/ \E forceRefresh \in BOOLEAN : CallVerifyLicense(forceRefresh)
    \/ \E feature \in FeatureInputs : CallCheckFeatureAccess(feature)
    \/ ResumeOutage
    \/ clearLicenseCache
    \/ Tick
    \/ Wait
    \/ Yield

SpecOutage ==
    InitOutage /\ [][NextOutage]_vars /\ WF_vars(Yield) /\ WF_vars(ResumeOutage)

\* Callers of every function interleave at one reading of the clock; each
\* request ends in the grant of a license or in the abort of its timeout.
\* The runtime takes every task that is ready again and again, and the
\* exchange of every suspended call ends: lines 105 and 162 abort it after
\* ten seconds at the latest.
LiveTimes == {StartTime}
LiveCalls ==
    { [NewCall EXCEPT !.op = "verifyLicense", !.now = t, !.request = pair] :
        t \in LiveTimes, pair \in Pairs }
    \cup { [NewCall EXCEPT !.op = "checkFeatureAccess", !.feature = "moviepilot",
                           !.now = t, !.request = pair] :
            t \in LiveTimes, pair \in Pairs }
    \cup { [NewCall EXCEPT !.op = "getLicenseStatus", !.config = pair,
                           !.now = t, !.request = pair] :
            t \in LiveTimes, pair \in Pairs }
    \cup { [NewCall EXCEPT !.op = "activateLicense", !.now = t,
                           !.request = pair] :
            t \in LiveTimes, pair \in Pairs }
LiveVerifyResponses ==
    {r \in VerifyResponses :
        r.kind = "timeout" \/ (r.kind = "json" /\ r.valid /\ r.type = "pro")}
LiveActivateResponses ==
    {r \in ActivateResponses : r.kind = "timeout" \/ r.kind = "json"}

InitLive ==
    /\ licenseCache = NULL
    /\ lastVerifyTime = 0
    /\ clock = StartTime
    /\ configFile \in {MissingFile, JsonFile(Domain, "K1")}
    /\ processEnv = ""
    /\ calls = EmptyBag
    /\ activated = NULL
    /\ cleared = FALSE
    /\ lastRequestTime = 0
    /\ step = NoStep

ResumeLive(call) ==
    \/ \E resp \in LiveVerifyResponses : ResumeVerify(call, resp)
    \/ \E resp \in LiveActivateResponses : ResumeActivate(call, resp)

NextLive ==
    \/ \E forceRefresh \in BOOLEAN : CallVerifyLicense(forceRefresh)
    \/ CallCheckFeatureAccess("moviepilot")
    \/ CallGetLicenseStatus
    \/ \E pair \in Pairs : CallActivateLicense(pair)
    \/ \E call \in LiveCalls : ResumeLive(call)
    \/ Yield

SpecLive ==
    /\ InitLive
    /\ [][NextLive]_vars
    /\ SF_vars(Yield)
    /\ \A call \in LiveCalls : SF_vars(ResumeLive(call))

----------------------------------------------------------------------------
(* What the properties speak of *)

VerifyOps == {"verifyLicense", "checkFeatureAccess", "getLicenseStatus"}

\* The step s is a call entering the function: it has received no response.
Started(s) ==
    s.kind \in {"return", "fetch", "throw"} /\ s.op \in VerifyOps /\ s.resp = NULL

\* The step s is a suspended call taking the response to its request.
Answered(s) ==
    s.kind \in {"return", "throw"} /\ s.op \in VerifyOps /\ s.resp # NULL

\* The exchange failed: transport error, timeout, non-success status,
\* unparsable body.
Failed(resp) ==
    resp # NULL /\ resp.kind \in {"network", "timeout", "status", "badjson"}

\* The authority was reached and gave an answer.
Reached(resp) == resp # NULL /\ resp.kind = "json"

\* The persisted configuration names no license: no file, no JSON, no
\* domain or no license key.
Unconfigured(file) ==
    file.status # "json" \/ file.domain = "" \/ file.licenseKey = ""

\* The refresh interval is one hour, in the milliseconds of the clock.
EntryIsFresh == licenseCache # NULL /\ clock - lastVerifyTime < 3600000
EntryIsStale == licenseCache # NULL /\ clock - lastVerifyTime >= 3600000

----------------------------------------------------------------------------
(* C1: stale on failure.  When a refresh by verifyLicense fails (transport
   error, timeout, non-success status, unparsable body) while a cache entry
   exists, the call returns that entry and leaves the entry and
   lastVerifyTime as they were; so the entry stays as old as it was, and a
   non-forced verifyLicense that finds it one interval old or older sends a
   request again. *)
C1_StaleOnFailure ==
    [][ /\ ( /\ step'.op = "verifyLicense"
             /\ Answered(step')
             /\ Failed(step'.resp)
             /\ licenseCache # NULL )
           => /\ step'.kind = "return"
              /\ step'.ret = licenseCache
              /\ licenseCache' = licenseCache
              /\ lastVerifyTime' = lastVerifyTime
        /\ ( /\ step'.op = "verifyLicense"
             /\ Started(step')
             /\ ~step'.forceRefresh
             /\ EntryIsStale
             /\ ~Unconfigured(configFile) )
           => /\ step'.kind = "fetch"
              /\ BagCardinality(calls') = BagCardinality(calls) + 1
      ]_vars

\* A refresh has failed and returned a valid entry that is one interval old
\* or older.
C1_Witness ==
    /\ step.op = "verifyLicense"
    /\ Answered(step)
    /\ Failed(step.resp)
    /\ EntryIsStale
    /\ licenseCache.valid
    /\ step.ret = licenseCache

(* C2: interval throttle.  A verifyLicense(false) made while a cache entry
   exists that is younger than one interval sends no request, does not read
   the configuration, leaves the entry and lastVerifyTime unchanged and
   returns exactly the entry. *)
C2_IntervalThrottle ==
    [][ ( /\ step'.op = "verifyLicense"
          /\ Started(step')
          /\ ~step'.forceRefresh
          /\ EntryIsFresh )
        => /\ step'.kind = "return"
           /\ step'.ret = licenseCache
           /\ step'.licenseConfig = NotRead
           /\ calls' = calls
           /\ licenseCache' = licenseCache
           /\ lastVerifyTime' = lastVerifyTime
      ]_vars

\* A call was answered from a valid entry half an interval old although the
\* configuration has been removed since.
C2_Witness ==
    /\ step.op = "verifyLicense"
    /\ Started(step)
    /\ ~step.forceRefresh
    /\ step.kind = "return"
    /\ step.licenseConfig = NotRead
    /\ licenseCache # NULL
    /\ licenseCache.valid
    /\ step.ret = licenseCache
    /\ clock - lastVerifyTime = TickStep
    /\ Unconfigured(configFile)

(* C3: bounded staleness of a revoked license.  A verifyLicense(false) that
   starts with a configured license when the entry is one interval old or
   older sends a request; when the authority is reached, the call returns
   the authority's answer and replaces the entry by it, so an answer
   valid=false is returned and cached; such a call that returns at once
   does not return a cached valid result. *)
C3_BoundedStaleness ==
    [][ /\ ( /\ step'.op = "verifyLicense"
             /\ Started(step')
             /\ ~step'.forceRefresh
             /\ EntryIsStale )
           => IF Unconfigured(configFile)
              THEN step'.kind = "return" /\ ~step'.ret.valid
              ELSE step'.kind = "fetch" /\ step'.now = clock
        /\ ( /\ step'.op = "verifyLicense"
             /\ Answered(step')
             /\ Reached(step'.resp) )
           => /\ step'.kind = "return"
              /\ step'.ret.valid = step'.resp.valid
              /\ step'.ret.message = step'.resp.message
              /\ licenseCache' = step'.ret
              /\ lastVerifyTime' = step'.now
      ]_vars

\* A non-forced call has sent a request although a valid entry is cached,
\* because the entry is one interval old.
C3_Witness ==
    /\ step.op = "verifyLicense"
    /\ Started(step)
    /\ ~step.forceRefresh
    /\ step.kind = "fetch"
    /\ licenseCache # NULL
    /\ licenseCache.valid
    /\ clock - lastVerifyTime = 3600000

(* C4: clearLicenseCache followed by verifyLicense.  As claimed: from any
   reachable state the call that follows clearLicenseCache sends a request
   to the authority. *)
C4_AlwaysRequests ==
    [][ ( /\ cleared
          /\ step'.op = "verifyLicense"
          /\ Started(step') )
        => step'.kind = "fetch"
      ]_vars

(* C4 as amended: clearLicenseCache empties the entry and the timestamp, and
   the verifyLicense that follows is never answered by the throttle: it
   reads the configuration, and sends a request when a license is
   configured; when none is, it sends no request and returns and caches the
   fresh "not configured" result. *)
C4_AlwaysVerifiesAfresh ==
    [][ /\ (cleared' /\ ~cleared) => licenseCache' = NULL /\ lastVerifyTime' = 0
        /\ ( /\ cleared
             /\ step'.op = "verifyLicense"
             /\ Started(step') )
           => /\ step'.licenseConfig # NotRead
              /\ IF Unconfigured(configFile)
                 THEN /\ step'.kind = "return"
                      /\ step'.ret = [valid |-> FALSE,
                                      message |-> "license not configured",
                                      type |-> "undefined"]
                      /\ licenseCache' = step'.ret
                      /\ lastVerifyTime' = clock
                      /\ calls' = calls
                 ELSE /\ step'.kind = "fetch"
                      /\ BagCardinality(calls') = BagCardinality(calls) + 1
                      /\ licenseCache' = NULL
      ]_vars

\* A non-forced call made right after clearLicenseCache, while another call
\* is outstanding, has sent its request.
C4_Witness ==
    /\ step.op = "verifyLicense"
    /\ Started(step)
    /\ step.after = "clear"
    /\ ~step.forceRefresh
    /\ step.kind = "fetch"
    /\ BagCardinality(calls) = 2
    /\ clock > StartTime

(* C5: activation round trip.  A successful activateLicense empties the
   cache; once the pair is persisted and clearLicenseCache has run, the
   verifyLicense that follows sends a request for the activated pair; and a
   verifyLicense that reaches the authority returns and caches the answer to
   its own request, whatever was cached before. *)
C5_ActivationRoundTrip ==
    [][ /\ ( /\ step'.op = "activateLicense"
             /\ step'.kind = "return"
             /\ step'.ret.success )
           => licenseCache' = NULL /\ lastVerifyTime' = 0
        /\ ( /\ cleared
             /\ activated # NULL
             /\ ~Unconfigured(configFile)
             /\ configFile.domain = activated.domain
             /\ configFile.licenseKey = activated.licenseKey
             /\ step'.op = "verifyLicense"
             /\ Started(step') )
           => /\ step'.kind = "fetch"
              /\ step'.licenseConfig = activated
        /\ ( /\ step'.op = "verifyLicense"
             /\ Answered(step')
             /\ Reached(step'.resp) )
           => /\ step'.ret = [valid |-> step'.resp.valid,
                              message |-> step'.resp.message,
                              type |-> step'.resp.type]
              /\ licenseCache' = step'.ret
      ]_vars

\* After an activation of the persisted pair, a verification of that pair
\* has returned and cached the authority's grant of the Pro license.
C5_Witness ==
    /\ activated # NULL
    /\ ~Unconfigured(configFile)
    /\ configFile.licenseKey = activated.licenseKey
    /\ step.op = "verifyLicense"
    /\ Answered(step)
    /\ Reached(step.resp)
    /\ step.licenseConfig = activated
    /\ step.resp.valid
    /\ step.resp.type = "pro"
    /\ step.ret.valid
    /\ step.ret.type = "pro"
    /\ licenseCache = step.ret

(* C6: unconfigured deployments.  As claimed: whenever the persisted
   configuration is unconfigured, checkFeatureAccess denies every feature
   and getLicenseStatus reports configured = false, whatever the cache
   holds. *)
C6_UnconfiguredDenies ==
    (Unconfigured(configFile) /\ Started(step))
    => /\ step.op = "checkFeatureAccess"
          => step.kind = "return" /\ ~step.ret.allowed
       /\ step.op = "getLicenseStatus"
          => step.kind = "return" /\ ~step.ret.configured

(* C6 as amended: whenever the persisted configuration is unconfigured,
   getLicenseStatus reports configured = false, valid = false and no info,
   and checkFeatureAccess sends no request and denies every feature with
   the "not configured" message, unless a cache entry younger than one
   interval exists: then it answers from that entry, unchanged, and allows
   only if the entry is valid. *)
C6_UnconfiguredDeniesUnlessFresh ==
    [][ (Unconfigured(configFile) /\ Started(step'))
        => /\ step'.op = "getLicenseStatus"
              => /\ step'.kind = "return"
                 /\ step'.ret = [configured |-> FALSE, valid |-> FALSE,
                                 info |-> NULL, config |-> NULL]
           /\ step'.op = "checkFeatureAccess"
              => /\ step'.kind = "return"
                 /\ calls' = calls
                 /\ IF EntryIsFresh
                    THEN /\ licenseCache' = licenseCache
                         /\ step'.ret.allowed => licenseCache.valid
                    ELSE step'.ret = [allowed |-> FALSE,
                                      reason |-> "license not configured"]
      ]_vars

\* With no license key in the configuration and nothing cached,
\* checkFeatureAccess has denied a feature that needs no Pro license.
C6_Witness ==
    /\ Unconfigured(configFile)
    /\ configFile.status = "json"
    /\ step.op = "checkFeatureAccess"
    /\ Started(step)
    /\ step.kind = "return"
    /\ step.feature = "tickets"
    /\ step.licenseConfig = NULL
    /\ ~step.ret.allowed
    /\ step.ret.reason = "license not configured"

(* C7: the decision table of checkFeatureAccess.  For the status S that
   verifyLicense() returned to it and the feature name f, the result is
   {allowed: false, reason: S.message} when S is not valid, whatever its
   type; else allowed when the type is lifetime or enterprise; else denied
   with the "requires Pro" reason when f is one of the four restricted names
   and the type is not pro; else allowed. *)
C7_DecisionTable ==
    (step.op = "checkFeatureAccess" /\ step.kind = "return")
    => LET S == step.license
           f == step.feature
           result == step.ret
       IN  IF ~S.valid
           THEN result = [allowed |-> FALSE, reason |-> S.message]
           ELSE IF S.type \in {"lifetime", "enterprise"}
           THEN result.allowed
           ELSE IF /\ f \in {"moviepilot", "telegram", "advanced-stats",
                             "multi-emby"}
                   /\ S.type # "pro"
           THEN result = [allowed |-> FALSE,
                          reason |-> "this feature requires a Pro license"]
           ELSE result.allowed

\* The authority has granted an enterprise license and checkFeatureAccess
\* has allowed a restricted feature.
C7_Witness ==
    /\ step.op = "checkFeatureAccess"
    /\ Answered(step)
    /\ step.license.valid
    /\ step.license.type = "enterprise"
    /\ step.feature = "multi-emby"
    /\ step.ret.allowed

(* C8: totality.  No step of verifyLicense, activateLicense,
   checkFeatureAccess or getLicenseStatus raises; every return hands over a
   result of the function's shape, for every configuration file and every
   outcome of the exchange; a failed exchange of a verification returns a
   LicenseInfo, which is invalid and is cached when there was no entry. *)
C8_Totality ==
    [][ /\ step'.kind # "throw"
        /\ step'.kind = "return"
           => /\ step'.op = "verifyLicense"
                 => /\ DOMAIN step'.ret = {"valid", "message", "type"}
                    /\ step'.ret.valid \in BOOLEAN
              /\ step'.op = "checkFeatureAccess"
                 => /\ DOMAIN step'.ret = {"allowed", "reason"}
                    /\ step'.ret.allowed \in BOOLEAN
              /\ step'.op = "getLicenseStatus"
                 => /\ DOMAIN step'.ret = {"configured", "valid", "info",
                                           "config"}
                    /\ step'.ret.configured \in BOOLEAN
                    /\ step'.ret.valid \in BOOLEAN
              /\ step'.op = "activateLicense"
                 => /\ DOMAIN step'.ret = {"success", "message", "license"}
                    /\ step'.ret.success \in BOOLEAN
        /\ ( /\ step'.op \in VerifyOps
             /\ Answered(step')
             /\ Failed(step'.resp) )
           => /\ DOMAIN step'.license = {"valid", "message", "type"}
              /\ licenseCache = NULL
                 => /\ ~step'.license.valid
                    /\ licenseCache' = step'.license
      ]_vars

\* The body of the response could not be parsed, there was no entry, and
\* checkFeatureAccess has returned a denial that carries the failure.
C8_Witness ==
    /\ step.op = "checkFeatureAccess"
    /\ Answered(step)
    /\ step.resp.kind = "badjson"
    /\ ~step.license.valid
    /\ licenseCache = step.license
    /\ lastVerifyTime = step.now
    /\ step.ret = [allowed |-> FALSE,
                   reason |-> "license verification failed: Unexpected token in JSON"]

(* C9: serialized cache writes.  As claimed: what a refresh that started
   later has written is never overwritten by the response of a refresh that
   started earlier, so that lastVerifyTime decreases only when the cache is
   emptied. *)
C9_SerializedWrites ==
    [][ lastVerifyTime' < lastVerifyTime
        => licenseCache' = NULL /\ lastVerifyTime' = 0
      ]_vars

(* C10: outbound rate.  As claimed: in a run of non-forced calls, concurrent
   ones and ones the authority fails included, a verification request is
   sent only when the run has sent none within the last interval. *)
C10_OneRequestPerInterval ==
    [][ ( /\ step'.op \in VerifyOps
          /\ Started(step')
          /\ ~step'.forceRefresh
          /\ step'.kind = "fetch" )
        => \/ lastRequestTime = 0
           \/ clock - lastRequestTime >= 3600000
      ]_vars

(* C10 as amended: a non-forced call sends a verification request only when
   at its start there is no entry or the entry is at least one interval
   old.  The answer stamps the entry with the time the call started when it
   reaches the authority or when there was no entry; a failure that finds an
   entry leaves the timestamp as it was, so the call that follows sends a
   request again. *)
C10_RequestOnlyWithoutFreshEntry ==
    [][ /\ ( /\ step'.op \in VerifyOps
             /\ Started(step')
             /\ ~step'.forceRefresh
             /\ step'.kind = "fetch" )
           => /\ ~EntryIsFresh
              /\ BagCardinality(calls') = BagCardinality(calls) + 1
        /\ ( /\ step'.op \in VerifyOps
             /\ Answered(step') )
           => IF Reached(step'.resp) \/ licenseCache = NULL
              THEN lastVerifyTime' = step'.now
              ELSE lastVerifyTime' = lastVerifyTime
      ]_vars

\* While the entry is a full interval old, checkFeatureAccess has sent a
\* request, the only one outstanding.
C10_Witness ==
    /\ step.op = "checkFeatureAccess"
    /\ Started(step)
    /\ step.kind = "fetch"
    /\ licenseCache # NULL
    /\ clock - lastVerifyTime >= 3600000
    /\ lastRequestTime = clock
    /\ BagCardinality(calls) = 1

\* The result that verifyLicense makes of each failure of the exchange.
FailedResult(resp) ==
    CASE resp.kind = "network" ->
            [valid |-> FALSE, type |-> "undefined",
             message |-> "license verification failed: fetch failed"]
      [] resp.kind = "timeout" ->
            [valid |-> FALSE, type |-> "undefined",
             message |-> "license verification failed: The operation was aborted due to timeout"]
      [] resp.kind = "status" ->
            [valid |-> FALSE, type |-> "undefined",
             message |-> "license verification failed: license server responded abnormally"]
      [] resp.kind = "badjson" ->
            [valid |-> FALSE, type |-> "undefined",
             message |-> "license verification failed: Unexpected token in JSON"]

(* C11: first-failure synthesis.  When the exchange of a verification fails
   and there is no cache entry, the call returns {valid: false, message:
   "verification failed: <detail>"}, that result becomes the entry and
   lastVerifyTime is the time the call read at its start; checkFeatureAccess
   denies with that message as its reason, in the failing call and in the
   calls that the entry answers afterwards. *)
C11_FirstFailureSynthesis ==
    [][ /\ ( /\ step'.op \in VerifyOps
             /\ Answered(step')
             /\ Failed(step'.resp)
             /\ licenseCache = NULL )
           => /\ step'.kind = "return"
              /\ step'.license = FailedResult(step'.resp)
              /\ licenseCache' = step'.license
              /\ lastVerifyTime' = step'.now
              /\ step'.op = "verifyLicense" => step'.ret = step'.license
              /\ step'.op = "checkFeatureAccess"
                 => step'.ret = [allowed |-> FALSE,
                                 reason |-> step'.license.message]
        /\ ( /\ step'.op = "checkFeatureAccess"
             /\ Started(step')
             /\ EntryIsFresh
             /\ ~licenseCache.valid )
           => step'.ret = [allowed |-> FALSE, reason |-> licenseCache.message]
      ]_vars

\* A verification whose request got no connection has returned, some time
\* after it started, the failure it synthesized and cached.
C11_Witness ==
    /\ step.op = "verifyLicense"
    /\ Answered(step)
    /\ step.resp.kind = "network"
    /\ step.ret = [valid |-> FALSE, type |-> "undefined",
                   message |-> "license verification failed: fetch failed"]
    /\ licenseCache = step.ret
    /\ lastVerifyTime = step.now
    /\ clock > step.now

(* C12: getLicenseStatus.  Called while the configuration is unconfigured
   it returns exactly {configured: false, valid: false, info: null, config:
   null}, whatever the cache holds; called while it is configured it returns
   configured = true, info = the LicenseInfo that its verifyLicense()
   returned, valid = info.valid and a config that holds the domain it read
   and nothing else. *)
C12_DisplayStatus ==
    (step.op = "getLicenseStatus" /\ step.kind = "return")
    => /\ (Started(step) /\ Unconfigured(configFile))
          => step.ret = [configured |-> FALSE, valid |-> FALSE,
                         info |-> NULL, config |-> NULL]
       /\ (Started(step) /\ ~Unconfigured(configFile))
          => /\ step.license # NULL
             /\ step.ret = [configured |-> TRUE,
                            valid |-> step.license.valid,
                            info |-> step.license,
                            config |-> [domain |-> configFile.domain]]
       /\ Answered(step)
          => /\ step.license # NULL
             /\ step.ret = [configured |-> TRUE,
                            valid |-> step.license.valid,
                            info |-> step.license,
                            config |-> [domain |-> step.licenseConfig.domain]]

\* getLicenseStatus has returned the Pro license that the authority granted
\* to its request, with the domain alone as config.
C12_Witness ==
    /\ step.op = "getLicenseStatus"
    /\ Answered(step)
    /\ Reached(step.resp)
    /\ step.ret.configured
    /\ step.ret.valid
    /\ step.ret.info.type = "pro"
    /\ step.ret.info = licenseCache
    /\ step.ret.config = [domain |-> "x.com"]

(* C13: the address of the authority.  Every request of verifyLicense and
   of activateLicense goes to LICENSE_SERVER of the environment when that
   is not empty; else to licenseServer of config.json when the file parses
   and the value is not empty; else to the built-in address, which a
   missing or unparsable file also falls through to.  The address is never
   empty: activateLicense never returns for want of one. *)
C13_AddressResolution ==
    /\ step.kind = "fetch"
       => /\ step.server # ""
          /\ step.server =
                IF processEnv # "" THEN processEnv
                ELSE IF configFile.status = "json"
                        /\ configFile.licenseServer # ""
                THEN configFile.licenseServer
                ELSE "https://license.flixpilot.ovh"
    /\ (step.op = "activateLicense" /\ step.kind # "none" /\ step.resp = NULL)
       => step.kind = "fetch"

\* With nothing in the environment, a verification has sent its request to
\* the address that config.json names.
C13_Witness ==
    /\ processEnv = ""
    /\ configFile.status = "json"
    /\ step.op = "verifyLicense"
    /\ step.kind = "fetch"
    /\ step.server = "https://config.example"

\* checkFeatureAccess(f) has returned, and has returned allowed = true.
CheckReturned(f) ==
    step.op = "checkFeatureAccess" /\ step.kind = "return" /\ step.feature = f
CheckAllowed(f) == CheckReturned(f) /\ step.ret.allowed

(* C14: no revocation by an outage.  As claimed: while the license stays
   configured and every response received grants the same license, once
   checkFeatureAccess(f) has returned allowed = true every later
   checkFeatureAccess(f) returns allowed = true, whatever fails and however
   the calls interleave. *)
C14_NeverRevoked ==
    \A f \in {"moviepilot", "tickets"} :
        [](CheckAllowed(f) => [](CheckReturned(f) => CheckAllowed(f)))

(* C14 as amended: the same holds until the cache is cleared.  A return of
   allowed = true leaves a valid entry; while the entry is valid every call
   returns it or the grant that replaces it, and checkFeatureAccess allows;
   a failed request changes nothing; and the valid entry goes away only by
   clearLicenseCache, after which a failed request is answered with the
   denial it synthesizes. *)
C14_NotRevokedUntilCleared ==
    [][ /\ ( /\ step'.op = "checkFeatureAccess"
             /\ step'.kind = "return"
             /\ step'.ret.allowed )
           => licenseCache' # NULL /\ licenseCache'.valid
        /\ ( /\ licenseCache # NULL
             /\ licenseCache.valid
             /\ step'.op \in VerifyOps
             /\ step'.kind # "fetch"
             /\ Started(step') \/ Answered(step') )
           => /\ step'.kind = "return"
              /\ step'.license.valid
              /\ step'.license.type = licenseCache.type
              /\ licenseCache' = step'.license
              /\ Failed(step'.resp)
                 => /\ step'.license = licenseCache
                    /\ lastVerifyTime' = lastVerifyTime
              /\ step'.op = "checkFeatureAccess" => step'.ret.allowed
        /\ ( /\ licenseCache # NULL
             /\ licenseCache.valid
             /\ licenseCache' # licenseCache )
           => \/ licenseCache' # NULL /\ licenseCache'.valid
              \/ licenseCache' = NULL /\ cleared' /\ ~cleared
        /\ ( /\ cleared
             /\ step'.op = "checkFeatureAccess"
             /\ Started(step') )
           => step'.kind = "fetch"
        /\ ( /\ licenseCache = NULL
             /\ step'.op = "checkFeatureAccess"
             /\ Answered(step')
             /\ Failed(step'.resp) )
           => ~step'.ret.allowed
      ]_vars

\* More than an interval after the grant, a request has failed and
\* checkFeatureAccess has allowed the restricted feature from the old entry.
C14_Witness ==
    /\ step.op = "checkFeatureAccess"
    /\ Answered(step)
    /\ Failed(step.resp)
    /\ step.feature = "moviepilot"
    /\ step.ret.allowed
    /\ licenseCache.valid
    /\ clock - lastVerifyTime >= 3600000

\* The verification requests that have been sent and not yet answered.
OutstandingVerifications ==
    LET waiting == {call \in BagToSet(calls) : call.op \in VerifyOps}
    IN  BagCardinality([call \in waiting |-> calls[call]])

(* C15: single in-flight refresh.  As claimed: at any moment at most one
   verification request is outstanding; of several callers that pass the
   interval check together only one sends a request. *)
C15_SingleInFlight == OutstandingVerifications <= 1

(* C16: no trust before verification.  The cache is absent when the
   process starts.  A call returns a valid LicenseInfo only when the
   authority has just answered its request with valid = true or when the
   entry it returns was valid already; the entry becomes valid only by
   being replaced with such an answer; checkFeatureAccess allows, and
   getLicenseStatus reports valid, only on a valid LicenseInfo.  So every
   allow goes back to a verification response with valid = true, and no
   synthesized, unconfigured or failure result is valid. *)
C16_NoTrustBeforeVerification ==
    /\ licenseCache = NULL
    /\ lastVerifyTime = 0
    /\ [][ /\ ( /\ step'.op \in VerifyOps
                /\ step'.kind = "return"
                /\ step'.license # NULL
                /\ step'.license.valid )
              => \/ /\ Answered(step')
                    /\ Reached(step'.resp)
                    /\ step'.resp.valid
                 \/ /\ licenseCache # NULL
                    /\ licenseCache.valid
                    /\ step'.license = licenseCache
           /\ ( /\ licenseCache' # NULL
                /\ licenseCache'.valid
                /\ licenseCache' # licenseCache )
              => /\ Answered(step')
                 /\ Reached(step'.resp)
                 /\ step'.resp.valid
                 /\ licenseCache' = step'.license
           /\ ( /\ step'.op = "checkFeatureAccess"
                /\ step'.kind = "return"
                /\ step'.ret.allowed )
              => step'.license.valid
           /\ ( /\ step'.op = "getLicenseStatus"
                /\ step'.kind = "return"
                /\ step'.ret.valid )
              => step'.license # NULL /\ step'.license.valid
           /\ ( /\ step'.op \in VerifyOps
                /\ step'.kind = "return"
                /\ step'.license # NULL
                /\ \/ Started(step') /\ step'.licenseConfig = NULL
                   \/ Answered(step') /\ Failed(step'.resp) /\ licenseCache = NULL )
              => ~step'.license.valid
         ]_vars

\* After a successful activation and before any verification has been
\* answered, checkFeatureAccess has found no license to trust and has sent
\* a request.
C16_Witness ==
    /\ activated # NULL
    /\ licenseCache = NULL
    /\ step.op = "checkFeatureAccess"
    /\ Started(step)
    /\ step.kind = "fetch"
    /\ OutstandingVerifications = 1

(* C17: unconfigured refresh.  When verifyLicense is not answered by the
   interval check (it is forced, or there is no entry, or the entry is at
   least one interval old) and the configuration is unconfigured, it sends
   no request, returns {valid: false, message: "not configured"} and makes
   that result the entry, stamped with the current time, whatever the entry
   was before. *)
C17_UnconfiguredRefresh ==
    [][ ( /\ step'.op \in {"verifyLicense", "checkFeatureAccess"}
          /\ Started(step')
          /\ Unconfigured(configFile)
          /\ \/ step'.forceRefresh
             \/ licenseCache = NULL
             \/ clock - lastVerifyTime >= 3600000 )
        => /\ step'.kind = "return"
           /\ calls' = calls
           /\ step'.license = [valid |-> FALSE,
                               message |-> "license not configured",
                               type |-> "undefined"]
           /\ licenseCache' = step'.license
           /\ lastVerifyTime' = clock
      ]_vars

\* A forced verification found the file unparsable and has made the
\* "not configured" result the entry, stamped with the current time.
C17_Witness ==
    /\ configFile.status = "corrupt"
    /\ step.op = "verifyLicense"
    /\ Started(step)
    /\ step.forceRefresh
    /\ step.kind = "return"
    /\ ~step.ret.valid
    /\ step.ret.message = "license not configured"
    /\ licenseCache = step.ret
    /\ lastVerifyTime = clock

(* C18: the frame of activateLicense.  No step of activateLicense writes
   the configuration file; sending its request changes neither the entry
   nor lastVerifyTime; when the authority answers success the entry
   becomes null and lastVerifyTime 0; when it answers otherwise, or the
   exchange fails, both stay exactly as they were and the call returns
   success = false. *)
C18_ActivateFrame ==
    [][ (step'.op = "activateLicense" /\ step'.kind # "none")
        => /\ configFile' = configFile
           /\ processEnv' = processEnv
           /\ step'.kind \in {"fetch", "return"}
           /\ step'.resp = NULL
              => licenseCache' = licenseCache /\ lastVerifyTime' = lastVerifyTime
           /\ step'.resp # NULL
              => /\ step'.kind = "return"
                 /\ IF step'.resp.kind = "json" /\ step'.resp.success
                    THEN /\ step'.ret.success
                         /\ licenseCache' = NULL
                         /\ lastVerifyTime' = 0
                    ELSE /\ ~step'.ret.success
                         /\ licenseCache' = licenseCache
                         /\ lastVerifyTime' = lastVerifyTime
      ]_vars

\* The authority has refused an activation and the valid entry is still in
\* the cache.
C18_Witness ==
    /\ step.op = "activateLicense"
    /\ step.kind = "return"
    /\ step.resp # NULL
    /\ step.resp.kind = "json"
    /\ ~step.resp.success
    /\ ~step.ret.success
    /\ licenseCache # NULL
    /\ licenseCache.valid
    /\ lastVerifyTime > 0

(* C19: the entry and its timestamp go together.  In every reachable
   state, however verifyLicense, activateLicense and clearLicenseCache
   interleave, licenseCache is null exactly when lastVerifyTime is 0. *)
C19_CachePairing == (licenseCache = NULL) <=> (lastVerifyTime = 0)

\* After an activation, the cache has been cleared while two calls await
\* their responses: entry and timestamp are both absent.
C19_Witness ==
    /\ activated # NULL
    /\ cleared
    /\ BagCardinality(calls) = 2
    /\ licenseCache = NULL
    /\ lastVerifyTime = 0
    /\ clock > StartTime

\* The call with these locals has returned to its caller.
HasReturned(call) ==
    /\ step.kind = "return"
    /\ step.op = call.op
    /\ step.now = IF call.op = "activateLicense" THEN 0 ELSE call.now
    /\ step.resp # NULL

(* C20: every call returns.  A call that enters a function returns at once
   or sends one request and is suspended; the step that takes the response,
   or the timeout error, returns and sends nothing more: no retry, and no
   call waits for another one.  Every suspended call is among the calls
   whose exchange ends, and every such call eventually returns. *)
C20_EveryCallReturns ==
    /\ [][ /\ (step'.kind # "none" /\ step'.resp = NULL)
              => \/ /\ step'.kind = "return"
                    /\ calls' = calls
                 \/ /\ step'.kind = "fetch"
                    /\ BagCardinality(calls') = BagCardinality(calls) + 1
           /\ step'.resp # NULL
              => /\ step'.kind = "return"
                 /\ step'.ret # NULL
                 /\ BagCardinality(calls') = BagCardinality(calls) - 1
         ]_vars
    /\ [](BagToSet(calls) \subseteq LiveCalls)
    /\ \A call \in LiveCalls : BagIn(call, calls) ~> HasReturned(call)

\* A verification has just returned from a failed exchange while an
\* activation is still suspended.
C20_Witness ==
    /\ step.kind = "return"
    /\ step.op \in {"verifyLicense", "checkFeatureAccess", "getLicenseStatus"}
    /\ step.resp # NULL
    /\ step.resp.kind = "timeout"
    /\ \E call \in BagToSet(calls) : call.op = "activateLicense"

====
